---- MODULE Spec2Model ----
(***************************************************************************)
(* Model of src/src/main.js: the log buffer fed by the "ping-log" push     *)
(* listener and by fetchLogs (poll), and the start/stop lifecycle that     *)
(* owns the recurring poll timer.  Every handler runs to its next await    *)
(* as one atomic step; a backend call that is pending is a counter, and    *)
(* its resolution or rejection is a later step.                            *)
(***************************************************************************)
EXTENDS Integers, Sequences, FiniteSets, TLC

\* ------------------------------------------------------------ constants
maxLogs == 100
autoScrollThreshold == 6

\* ------------------------------------------------------------ bounds
MaxSeq == 2          \* push and poll entries carry seq in 1..MaxSeq
MaxPollLen == 2      \* enumerated poll arrays have at most this many items
MaxPending == 2      \* start_ping / stop_ping calls pending at once
MaxInFlight == 2     \* get_recent_logs calls pending at once
RowH == 10           \* height of one log line in logList
ViewH == 12          \* logList.clientHeight
MaxRows == 3         \* the short windows of the view runs have up to MaxRows lines

Lines == {"a", "b"}
Errs == {"backend error"}
ValidationMsg == "enter a target address"

VARIABLES
    logs,            \* const logs = []             : sequence of [seq, line]
    running,         \* let running
    pollTimer,       \* let pollTimer               : TRUE iff it holds a handle
    activeTimers,    \* interval timers alive in the event loop
    autoScroll,      \* let autoScroll
    errorText,       \* errorText.textContent
    startBtnDisabled,\* startBtn.disabled (= addressInput.disabled)
    stopBtnDisabled, \* stopBtn.disabled
    logEmptyHidden,  \* logEmpty.hidden
    startAwait,      \* startPing tasks suspended at await invoke("start_ping")
    stopAwait,       \* stopPing tasks suspended at await invoke("stop_ping")
    polls,           \* fetchLogs tasks suspended at await invoke("get_recent_logs")
    scrollTop,       \* logList.scrollTop
    scrollTopBtn,    \* scrollTopBtn.hidden: "hidden", "shown", or as the markup has it
    scrollBottomBtn, \* scrollBottomBtn.hidden, likewise
    window,          \* the recent-log window the backend has settled on, if it has
    hist             \* history of the last handler that ran (observation only)

\* the scroll position of logList and the two buttons beside it
view == <<scrollTop, scrollTopBtn, scrollBottomBtn>>

vars == <<logs, running, pollTimer, activeTimers, autoScroll, errorText,
          startBtnDisabled, stopBtnDisabled, logEmptyHidden,
          startAwait, stopAwait, polls, view, window, hist>>

\* ------------------------------------------------------------ values
\* A JavaScript value offered as a log item: null, or an object whose seq and
\* line properties have the given typeof.
Item(nul, seqT, seq, lineT, line) ==
    [nul |-> nul, seqT |-> seqT, seq |-> seq, lineT |-> lineT, line |-> line]

NullItem == Item(TRUE, "undefined", 0, "undefined", "")
NoSeqItem == Item(FALSE, "undefined", 0, "string", "a")
NoLineItem == Item(FALSE, "number", 1, "undefined", "")

\* well-shaped items: every seq with line "a", and seq 1 with line "b" as well
WellShapedItems ==
    {Item(FALSE, "number", q, "string", "a") : q \in 1..MaxSeq}
    \cup {Item(FALSE, "number", 1, "string", "b")}
MalformedItems == {NullItem, NoSeqItem, NoLineItem}

\* the window 1..n of a backend that has logged n lines
LongWindow(n) == [i \in 1..n |-> Item(FALSE, "number", i, "string", "a")]

\* the same window with its first two lines exchanged (seq 2, 1, 3, ..., n)
SwappedWindow(n) ==
    [i \in 1..n |->
        Item(FALSE, "number", IF i = 1 THEN 2 ELSE IF i = 2 THEN 1 ELSE i,
             "string", "a")]

\* A value get_recent_logs resolves with.
ArrayValue(items) == [kind |-> "array", items |-> items]
NonArrayKinds == {"null", "undefined", "object", "string", "number"}
NonArrayValue(k) == [kind |-> k, items |-> <<>>]

\* responses of the reconciliation runs: every array of at most MaxPollLen
\* items, well-shaped or not, in any order; the windows of maxLogs and
\* maxLogs + 1 lines; every kind of non-array
PollItems == WellShapedItems \cup {NoSeqItem}
PollResponses ==
    {ArrayValue(a) : a \in UNION {[1..n -> PollItems] : n \in 0..MaxPollLen}}
    \cup {ArrayValue(LongWindow(maxLogs)), ArrayValue(LongWindow(maxLogs + 1)),
          ArrayValue(SwappedWindow(maxLogs))}
    \cup {NonArrayValue(k) : k \in NonArrayKinds}

\* "ping-log" payloads of the reconciliation runs
PushPayloads ==
    WellShapedItems \cup MalformedItems
    \cup {Item(FALSE, "number", maxLogs + 1, "string", "a")}

\* responses and payloads of the lifecycle runs
LifecyclePolls ==
    {ArrayValue(<<>>), ArrayValue(LongWindow(1)), NonArrayValue("null")}
\* (push entries with the lowest and the highest seq)
LifecyclePushes == {Item(FALSE, "number", q, "string", "a") : q \in {1, MaxSeq}}

\* addressInput.value as a sequence of characters
Addresses == {<<>>, <<" ">>, <<"h">>, <<" ", "h">>}

Min(a, b) == IF a <= b THEN a ELSE b
Max(a, b) == IF a >= b THEN a ELSE b

\* ------------------------------------------------------------ pure functions
RECURSIVE TrimStart(_)
TrimStart(s) == IF s # <<>> /\ Head(s) = " " THEN TrimStart(Tail(s)) ELSE s

RECURSIVE TrimEnd(_)
TrimEnd(s) ==
    IF s # <<>> /\ s[Len(s)] = " " THEN TrimEnd(SubSeq(s, 1, Len(s) - 1)) ELSE s

\* String.prototype.trim
Trim(s) == TrimEnd(TrimStart(s))

\* the shape test of addLog and normalizeEntries
WellShaped(item) ==
    ~item.nul /\ item.seqT = "number" /\ item.lineT = "string"

Entry(item) == [seq |-> item.seq, line |-> item.line]

\* raw.forEach: the well-shaped items, in order, copied as {seq, line}; an
\* item that fails the shape test is passed over
PassedOver == [seq |-> -1, line |-> "", passedOver |-> TRUE]
IsKept(e) == e # PassedOver
KeepWellShaped(items) ==
    SelectSeq([i \in DOMAIN items |->
                  IF WellShaped(items[i]) THEN Entry(items[i]) ELSE PassedOver],
              IsKept)

normalizeEntries(raw) ==
    IF raw.kind # "array" THEN <<>> ELSE KeepWellShaped(raw.items)

sliceUnclipped(entries) == entries

\* entries.slice(0, maxLogs)
slice(entries) == SubSeq(entries, 1, Min(Len(entries), maxLogs))

logsEqualNeverTrue(cur, next) == FALSE

logsEqualByLength(cur, next) == Len(cur) = Len(next)

logsEqual(cur, next) ==
    /\ Len(cur) = Len(next)
    /\ \A i \in 1..Len(cur) :
          cur[i].seq = next[i].seq /\ cur[i].line = next[i].line

Outcome(l, r) == [logs |-> l, rendered |-> r]

\* addLog(entry): the buffer afterwards and whether renderLogs ran
addLog(cur, entry) ==
    IF ~WellShaped(entry) THEN Outcome(cur, FALSE)
    ELSE IF Len(cur) > 0 /\ cur[Len(cur)].seq >= entry.seq THEN Outcome(cur, FALSE)
    ELSE LET pushed == Append(cur, Entry(entry))
         IN  Outcome(IF Len(pushed) > maxLogs THEN Tail(pushed) ELSE pushed, TRUE)

\* the "ping-log" listener: a falsy payload returns before addLog
pingLogListener(cur, payload) ==
    IF payload.nul THEN Outcome(cur, FALSE) ELSE addLog(cur, payload)

fetchLogsApplyIgnoresEmpty(cur, recent) ==
    LET entries == normalizeEntries(recent)
    IN  IF Len(entries) = 0 /\ recent.kind = "array"
        THEN Outcome(cur, FALSE)
        ELSE IF Len(entries) = 0 /\ Len(cur) = 0
        THEN Outcome(cur, TRUE)
        ELSE LET sliced == slice(entries)
             IN  IF logsEqual(cur, sliced) THEN Outcome(cur, FALSE)
                 ELSE Outcome(sliced, TRUE)

\* fetchLogs after its await: the buffer afterwards and whether renderLogs ran
fetchLogsApply(cur, recent) ==
    LET entries == normalizeEntries(recent)
    IN  IF Len(entries) = 0 /\ recent.kind = "array" /\ Len(recent.items) > 0
        THEN Outcome(cur, FALSE)
        ELSE IF Len(entries) = 0 /\ Len(cur) = 0
        THEN Outcome(cur, TRUE)
        ELSE LET sliced == slice(entries)
             IN  IF logsEqual(cur, sliced) THEN Outcome(cur, FALSE)
                 ELSE Outcome(sliced, TRUE)

\* renderLogs sets logEmpty.hidden from the buffer it draws
Rendered(out, hidden) == IF out.rendered THEN Len(out.logs) # 0 ELSE hidden

\* logList.scrollHeight with the buffer l drawn: at least the viewport
scrollHeight(l) == Max(ViewH, Len(l) * RowH)

\* logList.scrollHeight - logList.clientHeight, the largest scrollTop
MaxTop(l) == scrollHeight(l) - ViewH

renderLogsScrollTopAlwaysBottom(prevScrollTop, l, follow) == MaxTop(l)

\* renderLogs, the scroll offset after drawing the non-empty buffer l: the
\* bottom when autoScroll, else prevScrollTop, which the setter limits to
\* the scrollable range
renderLogsScrollTop(prevScrollTop, l, follow) ==
    IF follow THEN MaxTop(l) ELSE Min(prevScrollTop, MaxTop(l))

Buttons(top, bottom) == [scrollTopBtn |-> top, scrollBottomBtn |-> bottom]

updateScrollButtonsBottomFirst(top, maxTop) ==
    LET distanceToBottom == maxTop - top
        atTop == top <= autoScrollThreshold
        atBottom == distanceToBottom <= autoScrollThreshold
    IN  IF atBottom THEN Buttons("shown", "hidden")
        ELSE IF atTop THEN Buttons("hidden", "shown")
        ELSE Buttons("shown", "shown")

\* updateScrollButtons with logList.scrollTop = top
updateScrollButtons(top, maxTop) ==
    LET distanceToBottom == maxTop - top
        atTop == top <= autoScrollThreshold
        atBottom == distanceToBottom <= autoScrollThreshold
    IN  IF atTop THEN Buttons("hidden", "shown")
        ELSE IF atBottom THEN Buttons("shown", "hidden")
        ELSE Buttons("shown", "shown")

\* ------------------------------------------------------------ history
\* op       the handler that ran last
\* push     its payload, when it was the push listener
\* poll     its response, when it was a resolved poll
\* changed  it changed the buffer
\* rendered it called renderLogs
\* repeat   it was a delivery of the same payload/response as the handler before
\* pushedMax  highest seq push has put into the buffer since the last reset
\* stopped  a stop_ping has resolved
\* restarted  a start_ping requested after a stop resolved has resolved, and
\*            since then no push entry and no poll issued after it was delivered
\* afterStop  every pending start_ping was requested after a stop_ping resolved
NoPoll == NonArrayValue("none")

Hist(op, push, poll, changed, rendered, repeat, pushedMax, stopped, afterStop,
     restarted) ==
    [op |-> op, push |-> push, poll |-> poll, changed |-> changed,
     rendered |-> rendered, repeat |-> repeat, pushedMax |-> pushedMax,
     stopped |-> stopped, afterStop |-> afterStop, restarted |-> restarted]

\* a handler that is neither a push nor a resolved poll and leaves the buffer alone
Note(op) ==
    Hist(op, NullItem, NoPoll, FALSE, FALSE, FALSE,
         hist.pushedMax, hist.stopped, hist.afterStop, hist.restarted)

\* polls in flight: who issued them (startPing or the timer), and whether a
\* reset (a resolved start_ping) happened after they were issued (stale)
PollKinds == {"start", "timer", "staleStart", "staleTimer"}
InFlight == polls["start"] + polls["timer"] + polls["staleStart"] + polls["staleTimer"]
Issue(p, k) == [p EXCEPT ![k] = @ + 1]
Settle(p, k) == [p EXCEPT ![k] = @ - 1]
IsStale(k) == k \in {"staleStart", "staleTimer"}
IsStartOwned(k) == k \in {"start", "staleStart"}
\* every poll in flight was issued before the reset that happens now
Outdate(p) ==
    [k \in PollKinds |->
        CASE k = "start" -> 0
          [] k = "timer" -> 0
          [] k = "staleStart" -> p["staleStart"] + p["start"]
          [] k = "staleTimer" -> p["staleTimer"] + p["timer"]]

\* ------------------------------------------------------------ state space
TypeOK ==
    /\ logs \in Seq([seq : Int, line : STRING])
    /\ running \in BOOLEAN
    /\ pollTimer \in BOOLEAN
    /\ activeTimers \in Nat
    /\ autoScroll \in BOOLEAN
    /\ errorText \in {"", ValidationMsg} \cup Errs
    /\ startBtnDisabled \in BOOLEAN
    /\ stopBtnDisabled \in BOOLEAN
    /\ logEmptyHidden \in BOOLEAN
    /\ startAwait \in 0..MaxPending
    /\ stopAwait \in 0..MaxPending
    /\ polls \in [PollKinds -> 0..MaxInFlight]
    /\ scrollTop \in Nat
    /\ scrollTopBtn \in {"markup", "hidden", "shown"}
    /\ scrollBottomBtn \in {"markup", "hidden", "shown"}
    /\ window.kind \in {"array", "none"}

\* ------------------------------------------------------------ initial state
Init ==
    /\ logs = <<>>
    /\ running = FALSE
    /\ pollTimer = FALSE
    /\ activeTimers = 0
    /\ autoScroll = TRUE
    /\ errorText = ""
    /\ startBtnDisabled = FALSE
    /\ stopBtnDisabled = TRUE
    /\ logEmptyHidden = FALSE
    /\ startAwait = 0
    /\ stopAwait = 0
    /\ polls = [k \in PollKinds |-> 0]
    /\ scrollTop = 0
    /\ scrollTopBtn = "markup"
    /\ scrollBottomBtn = "markup"
    /\ window = NoPoll
    /\ hist = Hist("init", NullItem, NoPoll, FALSE, FALSE, FALSE, 0, FALSE, FALSE, FALSE)

\* ------------------------------------------------------------ helpers of the handlers
\* setRunning(next): running and the disabled flags derived from it
setRunning(next) ==
    /\ running' = next
    /\ startBtnDisabled' = next
    /\ stopBtnDisabled' = ~next

\* startPing after await fetchLogs(): cancel any existing timer, arm a new one
ArmPollTimer ==
    /\ pollTimer' = TRUE
    /\ activeTimers' = (IF pollTimer THEN activeTimers - 1 ELSE activeTimers) + 1

\* updateScrollButtons() once logList.scrollTop is top and the buffer l is drawn
setButtons(top, l) ==
    /\ scrollTopBtn' = updateScrollButtons(top, MaxTop(l)).scrollTopBtn
    /\ scrollBottomBtn' = updateScrollButtons(top, MaxTop(l)).scrollBottomBtn

\* what a handler with outcome out does to the view: nothing unless it called
\* renderLogs; renderLogs of an empty buffer clears the list and returns;
\* renderLogs of a non-empty buffer sets scrollTop and the buttons
renderView(out) ==
    IF ~out.rendered THEN UNCHANGED view
    ELSE IF out.logs = <<>>
    THEN scrollTop' = 0 /\ UNCHANGED <<scrollTopBtn, scrollBottomBtn>>
    ELSE LET top == renderLogsScrollTop(scrollTop, out.logs, autoScroll)
         IN  scrollTop' = top /\ setButtons(top, out.logs)

\* distances from the bottom a user scroll can leave the list at
ScrollDistances == {0, autoScrollThreshold, autoScrollThreshold + 1}

\* ------------------------------------------------------------ actions
\* click on startBtn, or Enter in addressInput while not running: startPing up
\* to its await
startPing(address) ==
    /\ ~startBtnDisabled
    /\ IF Trim(address) = <<>>
       THEN /\ errorText' = ValidationMsg
            /\ UNCHANGED startAwait
            /\ hist' = Note("startInvalid")
       ELSE /\ startAwait < MaxPending
            /\ errorText' = ""
            /\ startAwait' = startAwait + 1
            /\ hist' = [Note("startClick") EXCEPT
                           !.afterStop = hist.stopped /\ (startAwait = 0 \/ @)]
    /\ UNCHANGED <<window, view, logs, running, pollTimer, activeTimers, autoScroll,
                   startBtnDisabled, stopBtnDisabled, logEmptyHidden,
                   stopAwait, polls>>

StartPingResolvedKeepsMode ==
    /\ startAwait > 0
    /\ InFlight < MaxInFlight
    /\ startAwait' = startAwait - 1
    /\ logs' = <<>>
    /\ logEmptyHidden' = FALSE
    /\ renderView(Outcome(<<>>, TRUE))
    /\ setRunning(TRUE)
    /\ polls' = Issue(Outdate(polls), "start")
    /\ hist' = Hist("startResolved", NullItem, NoPoll, logs # <<>>, TRUE, FALSE,
                    0, hist.stopped, hist.afterStop, hist.afterStop)
    /\ UNCHANGED <<window, pollTimer, activeTimers, autoScroll, errorText, stopAwait>>

\* invoke("start_ping") resolves: reset, setRunning(true), fetchLogs() up to its await
StartPingResolved ==
    /\ startAwait > 0
    /\ InFlight < MaxInFlight
    /\ startAwait' = startAwait - 1
    /\ logs' = <<>>
    /\ logEmptyHidden' = FALSE
    /\ renderView(Outcome(<<>>, TRUE))
    /\ autoScroll' = TRUE
    /\ setRunning(TRUE)
    /\ polls' = Issue(Outdate(polls), "start")
    /\ hist' = Hist("startResolved", NullItem, NoPoll, logs # <<>>, TRUE, FALSE,
                    0, hist.stopped, hist.afterStop, hist.afterStop)
    /\ UNCHANGED <<window, pollTimer, activeTimers, errorText, stopAwait>>

\* invoke("start_ping") rejects: catch, setError(String(err))
StartPingRejected(err) ==
    /\ startAwait > 0
    /\ startAwait' = startAwait - 1
    /\ errorText' = err
    /\ hist' = Note("startRejected")
    /\ UNCHANGED <<window, view, logs, running, pollTimer, activeTimers, autoScroll,
                   startBtnDisabled, stopBtnDisabled, logEmptyHidden,
                   stopAwait, polls>>

\* click on stopBtn: stopPing up to its await
stopPing ==
    /\ ~stopBtnDisabled
    /\ stopAwait < MaxPending
    /\ errorText' = ""
    /\ stopAwait' = stopAwait + 1
    /\ hist' = Note("stopClick")
    /\ UNCHANGED <<window, view, logs, running, pollTimer, activeTimers, autoScroll,
                   startBtnDisabled, stopBtnDisabled, logEmptyHidden,
                   startAwait, polls>>

\* invoke("stop_ping") resolves: setRunning(false), cancel the timer
StopPingResolved ==
    /\ stopAwait > 0
    /\ stopAwait' = stopAwait - 1
    /\ setRunning(FALSE)
    /\ pollTimer' = FALSE
    /\ activeTimers' = IF pollTimer THEN activeTimers - 1 ELSE activeTimers
    /\ hist' = Hist("stopResolved", NullItem, NoPoll, FALSE, FALSE, FALSE,
                    hist.pushedMax, TRUE, FALSE, hist.restarted)
    /\ UNCHANGED <<window, view, logs, autoScroll, errorText, logEmptyHidden, startAwait, polls>>

StopPingRejectedCleared(err) ==
    /\ stopAwait > 0
    /\ stopAwait' = stopAwait - 1
    /\ errorText' = err
    /\ setRunning(FALSE)
    /\ pollTimer' = FALSE
    /\ activeTimers' = IF pollTimer THEN activeTimers - 1 ELSE activeTimers
    /\ hist' = Note("stopRejected")
    /\ UNCHANGED <<window, view, logs, autoScroll, logEmptyHidden, startAwait, polls>>

\* invoke("stop_ping") rejects: catch, setError(String(err))
StopPingRejected(err) ==
    /\ stopAwait > 0
    /\ stopAwait' = stopAwait - 1
    /\ errorText' = err
    /\ hist' = Note("stopRejected")
    /\ UNCHANGED <<window, view, logs, running, pollTimer, activeTimers, autoScroll,
                   startBtnDisabled, stopBtnDisabled, logEmptyHidden,
                   startAwait, polls>>

\* an interval timer fires: fetchLogs() up to its await
TimerFires ==
    /\ activeTimers > 0
    /\ InFlight < MaxInFlight
    /\ polls' = Issue(polls, "timer")
    /\ hist' = Note("timer")
    /\ UNCHANGED <<window, view, logs, running, pollTimer, activeTimers, autoScroll, errorText,
                   startBtnDisabled, stopBtnDisabled, logEmptyHidden,
                   startAwait, stopAwait>>

\* invoke("get_recent_logs") of a poll of kind k resolves with recent: the rest
\* of fetchLogs, then, for a poll startPing awaits, the rest of startPing
FetchLogsResolved(k, recent) ==
    /\ polls[k] > 0
    /\ polls' = Settle(polls, k)
    /\ LET out == fetchLogsApply(logs, recent)
       IN  /\ logs' = out.logs
           /\ logEmptyHidden' = Rendered(out, logEmptyHidden)
           /\ renderView(out)
           /\ hist' = Hist("poll", NullItem, recent, out.logs # logs, out.rendered,
                           hist.op = "poll" /\ hist.poll = recent,
                           hist.pushedMax, hist.stopped, hist.afterStop,
                           IF IsStale(k) THEN hist.restarted ELSE FALSE)
    /\ IF IsStartOwned(k) THEN ArmPollTimer ELSE UNCHANGED <<pollTimer, activeTimers>>
    /\ UNCHANGED <<window, running, autoScroll, errorText, startBtnDisabled,
                   stopBtnDisabled, startAwait, stopAwait>>

FetchLogsRejectedSurfaced(k) ==
    /\ polls[k] > 0
    /\ polls' = Settle(polls, k)
    /\ hist' = Note("pollFailed")
    /\ errorText' = "backend error"
    /\ IF IsStartOwned(k) THEN ArmPollTimer ELSE UNCHANGED <<pollTimer, activeTimers>>
    /\ UNCHANGED <<window, view, logs, running, autoScroll, startBtnDisabled,
                   stopBtnDisabled, logEmptyHidden, startAwait, stopAwait>>

\* invoke("get_recent_logs") rejects: the empty catch of fetchLogs, then, for a
\* poll startPing awaits, the rest of startPing
FetchLogsRejected(k) ==
    /\ polls[k] > 0
    /\ polls' = Settle(polls, k)
    /\ hist' = Note("pollFailed")
    /\ IF IsStartOwned(k) THEN ArmPollTimer ELSE UNCHANGED <<pollTimer, activeTimers>>
    /\ UNCHANGED <<window, view, logs, running, autoScroll, errorText, startBtnDisabled,
                   stopBtnDisabled, logEmptyHidden, startAwait, stopAwait>>

\* a "ping-log" event arrives
PingLog(payload) ==
    /\ LET out == pingLogListener(logs, payload)
       IN  /\ logs' = out.logs
           /\ logEmptyHidden' = Rendered(out, logEmptyHidden)
           /\ renderView(out)
           /\ hist' = Hist("push", payload, NoPoll, out.logs # logs, out.rendered,
                           hist.op = "push" /\ hist.push = payload,
                           IF out.logs # logs
                           THEN Max(hist.pushedMax, payload.seq)
                           ELSE hist.pushedMax,
                           hist.stopped, hist.afterStop,
                           IF WellShaped(payload) THEN FALSE ELSE hist.restarted)
    /\ UNCHANGED <<window, running, pollTimer, activeTimers, autoScroll, errorText,
                   startBtnDisabled, stopBtnDisabled, startAwait, stopAwait, polls>>

\* a "scroll" event on logList, the list now at distance d from the bottom
Scroll(d) ==
    /\ d \in 0..MaxTop(logs)
    /\ scrollTop' = MaxTop(logs) - d
    /\ LET distanceToBottom == scrollHeight(logs) - ViewH - scrollTop'
       IN  autoScroll' = (distanceToBottom <= autoScrollThreshold)
    /\ setButtons(scrollTop', logs)
    /\ hist' = Note("scroll")
    /\ UNCHANGED <<window, logs, running, pollTimer, activeTimers, errorText,
                   startBtnDisabled, stopBtnDisabled, logEmptyHidden,
                   startAwait, stopAwait, polls>>

\* click on scrollTopBtn
ScrollTopClick ==
    /\ scrollTopBtn # "hidden"
    /\ scrollTop' = 0
    /\ setButtons(0, logs)
    /\ hist' = Note("scrollTopClick")
    /\ UNCHANGED <<window, logs, running, pollTimer, activeTimers, autoScroll,
                   errorText, startBtnDisabled, stopBtnDisabled, logEmptyHidden,
                   startAwait, stopAwait, polls>>

\* click on scrollBottomBtn
ScrollBottomClick ==
    /\ scrollBottomBtn # "hidden"
    /\ scrollTop' = MaxTop(logs)
    /\ setButtons(MaxTop(logs), logs)
    /\ hist' = Note("scrollBottomClick")
    /\ UNCHANGED <<window, logs, running, pollTimer, activeTimers, autoScroll,
                   errorText, startBtnDisabled, stopBtnDisabled, logEmptyHidden,
                   startAwait, stopAwait, polls>>

\* the lifecycle, with few log values
Next ==
    \/ \E address \in Addresses : startPing(address)
    \/ StartPingResolved
    \/ \E err \in Errs : StartPingRejected(err)
    \/ stopPing
    \/ StopPingResolved
    \/ \E err \in Errs : StopPingRejected(err)
    \/ TimerFires
    \/ \E k \in PollKinds, recent \in LifecyclePolls : FetchLogsResolved(k, recent)
    \/ \E k \in PollKinds : FetchLogsRejected(k)
    \/ \E payload \in LifecyclePushes : PingLog(payload)
    \/ \E d \in ScrollDistances : Scroll(d)

Spec == Init /\ [][Next]_vars

\* One run: the state once start_ping has resolved and the immediate poll has
\* failed, the timer armed; from there only the two channels act, with every
\* payload and response.
RunningAfterStart ==
    /\ logs = <<>>
    /\ running = TRUE
    /\ pollTimer = TRUE
    /\ activeTimers = 1
    /\ autoScroll = TRUE
    /\ errorText = ""
    /\ startBtnDisabled = TRUE
    /\ stopBtnDisabled = FALSE
    /\ logEmptyHidden = FALSE
    /\ startAwait = 0
    /\ stopAwait = 0
    /\ polls = [k \in PollKinds |-> 0]
    /\ scrollTop = 0
    /\ scrollTopBtn = "markup"
    /\ scrollBottomBtn = "markup"
    /\ window = NoPoll
    /\ hist = Hist("pollFailed", NullItem, NoPoll, FALSE, FALSE, FALSE, 0, FALSE,
                   FALSE, FALSE)

NextRun ==
    \/ TimerFires
    \/ \E recent \in PollResponses : FetchLogsResolved("timer", recent)
    \/ FetchLogsRejected("timer")
    \/ \E payload \in PushPayloads : PingLog(payload)

SpecRun == RunningAfterStart /\ [][NextRun]_vars

\* The view during one run: windows of up to MaxRows lines and the window of
\* maxLogs lines, pushes, scroll events (also the one that leaves the list
\* where it is) and the two scroll buttons.
ViewPolls ==
    {ArrayValue(LongWindow(n)) : n \in 0..MaxRows}
    \cup {ArrayValue(LongWindow(maxLogs))}

NextView ==
    \/ TimerFires
    \/ \E recent \in ViewPolls : FetchLogsResolved("timer", recent)
    \/ \E payload \in LifecyclePushes : PingLog(payload)
    \/ \E d \in ScrollDistances : Scroll(d)
    \/ Scroll(MaxTop(logs) - scrollTop)
    \/ ScrollTopClick
    \/ ScrollBottomClick

SpecView == RunningAfterStart /\ [][NextView]_vars

\* Polling alone: the backend has settled on a window of at most maxLogs
\* ordered lines, no "ping-log" event arrives, and every get_recent_logs
\* resolves with that window.  The run starts once a first poll, issued before
\* the window settled, has been applied to the empty buffer.
StableWindows == ViewPolls
PriorPolls ==
    ViewPolls
    \cup {ArrayValue(SwappedWindow(2)), ArrayValue(LongWindow(maxLogs + 1))}

RunningBeforeWindow ==
    /\ window \in StableWindows
    /\ \E recent \in PriorPolls :
          LET out == fetchLogsApply(<<>>, recent)
              top == IF out.logs = <<>> THEN 0 ELSE MaxTop(out.logs)
          IN  /\ logs = out.logs
              /\ logEmptyHidden = Rendered(out, FALSE)
              /\ scrollTop = top
              /\ scrollTopBtn = IF out.logs = <<>> THEN "markup"
                                ELSE updateScrollButtons(top, top).scrollTopBtn
              /\ scrollBottomBtn = IF out.logs = <<>> THEN "markup"
                                   ELSE updateScrollButtons(top, top).scrollBottomBtn
              /\ hist = Hist("poll", NullItem, recent, out.logs # <<>>, out.rendered,
                             FALSE, 0, FALSE, FALSE, FALSE)
    /\ running = TRUE
    /\ pollTimer = TRUE
    /\ activeTimers = 1
    /\ autoScroll = TRUE
    /\ errorText = ""
    /\ startBtnDisabled = TRUE
    /\ stopBtnDisabled = FALSE
    /\ startAwait = 0
    /\ stopAwait = 0
    /\ polls = [k \in PollKinds |-> 0]

NextPoll ==
    \/ TimerFires
    \/ FetchLogsResolved("timer", window)

\* setInterval keeps firing while the timer is armed, and every request that is
\* pending gets its response
FairPoll ==
    /\ WF_vars(TimerFires)
    /\ WF_vars(FetchLogsResolved("timer", window))

SpecPoll == RunningBeforeWindow /\ [][NextPoll]_vars /\ FairPoll

\* ------------------------------------------------------------ properties
SeqsOf(l) == {l[i].seq : i \in DOMAIN l}
MaxSeqOf(l) == CHOOSE m \in SeqsOf(l) : \A n \in SeqsOf(l) : n <= m
HasMalformedItem(recent) ==
    recent.kind = "array" /\ \E i \in DOMAIN recent.items : ~WellShaped(recent.items[i])

\* C1: in every reachable state the seq values of the buffer are strictly
\* increasing from front to back, whatever well-shaped arrays the polls carry.
C1_StrictlyIncreasing ==
    \A i \in 1..(Len(logs) - 1) : logs[i].seq < logs[i + 1].seq

\* C2: in every reachable state the buffer holds at most maxLogs entries.
C2_Bounded == Len(logs) <= maxLogs

\* a push was accepted into a full buffer: the entry with seq 1 was evicted
C2_FullAfterEviction ==
    /\ hist.op = "push"
    /\ hist.changed
    /\ Len(logs) = maxLogs
    /\ logs[1].seq = 2
    /\ logs[maxLogs].seq = maxLogs + 1

\* C3: in every reachable state the poll timer is armed exactly when
\* running is true.
C3_TimerIffRunning ==
    /\ pollTimer <=> running
    /\ (activeTimers > 0) <=> running

\* the response is an array of well-shaped items only
WellFormedSnapshot(recent) == recent.kind = "array" /\ ~HasMalformedItem(recent)

\* C4: once push has put an entry with seq m into the buffer, the buffer's
\* maximum seq after a poll snapshot applied later in the same run is at
\* least m.
C4_PollKeepsPushedMax ==
    (hist.op = "poll" /\ WellFormedSnapshot(hist.poll) /\ hist.pushedMax > 0) =>
        (logs # <<>> /\ MaxSeqOf(logs) >= hist.pushedMax)

\* C5: a malformed push payload, and a poll array with at least one malformed
\* item, leave the buffer exactly as it was.
C5_MalformedDiscardedWhole ==
    /\ (hist.op = "push" /\ ~WellShaped(hist.push)) => ~hist.changed
    /\ (hist.op = "poll" /\ HasMalformedItem(hist.poll)) => ~hist.changed

\* C6: a poll response that is not an array leaves the buffer as it was.
C6_NonArrayIsNoUpdate ==
    (hist.op = "poll" /\ hist.poll.kind # "array") => ~hist.changed

\* C7: the same poll snapshot (an array), or the same push payload, delivered
\* a second time changes nothing and renders nothing.
C7_SecondDeliveryIsSilent ==
    (hist.repeat /\ (hist.op = "poll" => hist.poll.kind = "array")) =>
        (~hist.changed /\ ~hist.rendered)

\* the response is [] or not an array
NormalizesToNoUpdate(recent) ==
    normalizeEntries(recent) = <<>> /\ ~(recent.kind = "array" /\ Len(recent.items) > 0)

\* C7, amended: a second delivery changes nothing, and renders exactly when it
\* is a poll response that is [] or not an array, applied to an empty buffer.
C7_SecondDeliveryRendersOnlyEmpty ==
    hist.repeat =>
        /\ ~hist.changed
        /\ hist.rendered <=>
              (hist.op = "poll" /\ logs = <<>> /\ NormalizesToNoUpdate(hist.poll))

\* a snapshot of two entries has just been applied for the second time
C7_SnapshotAppliedTwice ==
    /\ hist.repeat
    /\ hist.op = "poll"
    /\ Len(logs) >= 2
    /\ normalizeEntries(hist.poll) = logs

\* C8: at most one get_recent_logs call is in flight.
C8_OnePollInFlight == InFlight <= 1

\* C9: after a stop and a following start have succeeded, the buffer is empty
\* until a push entry or a poll issued after that start is delivered.
C9_EmptyUntilNewRunDelivers == hist.restarted => logs = <<>>

\* what no failed attempt touches
C10_Frame == UNCHANGED <<logs, pollTimer, activeTimers, autoScroll>>

\* C10: a failed attempt surfaces an error and changes nothing else: the empty
\* address issues no call, a rejected start_ping leaves running false, a
\* rejected stop_ping leaves running true with the timer armed.
C10_FailureLeavesIdleOrRunning ==
    [][/\ hist'.op = "startInvalid" =>
            (startAwait' = startAwait /\ C10_Frame /\ errorText' # "")
       /\ hist'.op = "startRejected" =>
            (running' = FALSE /\ C10_Frame /\ errorText' # "")
       /\ hist'.op = "stopRejected" =>
            (running' = TRUE /\ pollTimer' = TRUE /\ C10_Frame /\ errorText' # "")
      ]_vars

\* C10, amended: a failed attempt surfaces its error text and leaves running,
\* the timer, the buffer and the auto-follow flag as they were at that moment.
C10_FailureChangesOnlyError ==
    [][/\ hist'.op = "startInvalid" =>
            /\ startAwait' = startAwait
            /\ UNCHANGED running
            /\ C10_Frame
            /\ errorText' = ValidationMsg
       /\ hist'.op \in {"startRejected", "stopRejected"} =>
            /\ UNCHANGED running
            /\ C10_Frame
            /\ errorText' \in Errs
      ]_vars

\* a stop_ping was rejected in a run with entries shown and auto-follow off
C10_StopRejectedWhileRunning ==
    /\ hist.op = "stopRejected"
    /\ running
    /\ pollTimer
    /\ logs # <<>>
    /\ ~autoScroll
    /\ errorText \in Errs

\* C11: a well-shaped push entry whose seq is at most the maximum seq of a
\* non-empty buffer changes nothing and renders nothing; any other well-shaped
\* entry is appended at the end.
C11_AppendOnlyAboveMax ==
    [][(hist'.op = "push" /\ WellShaped(hist'.push)) =>
          IF logs # <<>> /\ hist'.push.seq <= MaxSeqOf(logs)
          THEN logs' = logs /\ ~hist'.rendered
          ELSE logs' \in {Append(logs, Entry(hist'.push)),
                          Tail(Append(logs, Entry(hist'.push)))}
      ]_vars

\* the buffer without its i-th entry
Without(s, i) == SubSeq(s, 1, i - 1) \o SubSeq(s, i + 1, Len(s))

\* C12: when an accepted push entry arrives at a full buffer, the entry that
\* leaves the buffer is one with the lowest seq, and the new entry is at the end.
C12_EvictsLowestSeq ==
    [][(hist'.op = "push" /\ hist'.changed /\ Len(logs) = maxLogs) =>
          \E i \in 1..Len(logs) :
              /\ \A j \in 1..Len(logs) : logs[i].seq <= logs[j].seq
              /\ logs' = Append(Without(logs, i), Entry(hist'.push))
      ]_vars

\* C13: when start_ping resolves, the buffer is empty and shown as "no data",
\* autoScroll is true and the run is on, whatever they were before, and the
\* immediate poll is in flight, not yet delivered.
C13_ResetOnStart ==
    [][hist'.op = "startResolved" =>
          /\ logs' = <<>> /\ ~logEmptyHidden'
          /\ autoScroll'
          /\ running'
          /\ polls'["start"] = 1 /\ polls'["timer"] = 0
      ]_vars

\* start_ping resolved on a non-empty buffer, after an earlier stop
C13_StartResolvedOnUsedBuffer ==
    hist.op = "startResolved" /\ hist.changed /\ hist.stopped

\* the poll that settles in this step was issued by the interval timer
TimerPollSettles ==
    polls'["timer"] < polls["timer"] \/ polls'["staleTimer"] < polls["staleTimer"]

\* C15: a rejected get_recent_logs changes neither the buffer and its view, nor
\* running and the buttons, nor the error text, nor autoScroll; it cancels no
\* interval timer, so the recurring poll goes on; a poll the timer issued leaves
\* pollTimer as it was (the poll startPing awaits is followed by startPing
\* arming the timer, as after a successful one).
C15_FailedPollAbsorbed ==
    [][hist'.op = "pollFailed" =>
          /\ UNCHANGED <<logs, logEmptyHidden, running, startBtnDisabled,
                         stopBtnDisabled, errorText, autoScroll>>
          /\ activeTimers' >= activeTimers
          /\ (pollTimer => pollTimer')
          /\ (TimerPollSettles => UNCHANGED <<pollTimer, activeTimers>>)
      ]_vars

\* a response that is an array of well-shaped items with strictly increasing seq
OrderedSnapshot(recent) ==
    /\ WellFormedSnapshot(recent)
    /\ \A i \in 1..(Len(recent.items) - 1) :
          recent.items[i].seq < recent.items[i + 1].seq

\* the buffer after the listener got e and then fetchLogs got S, and after the
\* same two deliveries in the other order
PushThenPoll(cur, e, S) == fetchLogsApply(pingLogListener(cur, e).logs, S).logs
PollThenPush(cur, e, S) == pingLogListener(fetchLogsApply(cur, S).logs, e).logs

\* C16: from every reachable non-empty buffer, a well-shaped push entry e
\* followed by an ordered well-formed poll snapshot S gives the same buffer as
\* S followed by e.
C16_OrderIndependent ==
    logs # <<>> =>
        \A e \in WellShapedItems :
            \A S \in {r \in PollResponses : OrderedSnapshot(r)} :
                PushThenPoll(logs, e, S) = PollThenPush(logs, e, S)

\* the last maxLogs entries of a window (all of it when it is shorter)
MostRecent(entries) ==
    SubSeq(entries, Max(1, Len(entries) - maxLogs + 1), Len(entries))

\* C17: after an ordered well-formed poll snapshot has replaced the buffer, the
\* buffer holds the last maxLogs entries of the snapshot (the whole snapshot
\* when it has at most maxLogs entries).
C17_ReplacedByMostRecent ==
    (hist.op = "poll" /\ OrderedSnapshot(hist.poll) /\ hist.changed) =>
        logs = MostRecent(normalizeEntries(hist.poll))

\* C18: after the poll response [] the buffer is empty, renderLogs has run and
\* the "no data" element is shown, whether the buffer held entries or not.
C18_EmptySnapshotEmpties ==
    (hist.op = "poll" /\ hist.poll = ArrayValue(<<>>)) =>
        (logs = <<>> /\ hist.rendered /\ ~logEmptyHidden)

\* the response [] arrived at a non-empty buffer
C18_EmptySnapshotOnEntries ==
    hist.op = "poll" /\ hist.poll = ArrayValue(<<>>) /\ hist.changed

\* the handler of this step drew a non-empty buffer for a push or a poll
DeliveryRenders ==
    hist'.op \in {"push", "poll"} /\ hist'.rendered /\ logs' # <<>>

\* after a scroll event autoScroll says whether the list is within the
\* threshold of the bottom, and a push or poll handler leaves autoScroll alone
ModeFollowsScroll ==
    /\ hist'.op = "scroll" =>
          autoScroll' = (MaxTop(logs') - scrollTop' <= autoScrollThreshold)
    /\ hist'.op \in {"push", "poll"} => autoScroll' = autoScroll

\* C19: autoScroll follows the scroll events only, and a render of a non-empty
\* buffer leaves the list at the bottom when autoScroll, else at the offset
\* it had just before the render.
C19_RenderKeepsPinnedOffset ==
    [][/\ ModeFollowsScroll
       /\ DeliveryRenders =>
             scrollTop' = IF autoScroll THEN MaxTop(logs') ELSE scrollTop
      ]_vars

\* C19 as amended: when not autoScroll the render leaves the list at the
\* offset it had just before, or at the bottom when the new content is too
\* short for that offset.
C19_RenderKeepsPinnedOffsetInRange ==
    [][/\ ModeFollowsScroll
       /\ DeliveryRenders =>
             scrollTop' = IF autoScroll THEN MaxTop(logs')
                          ELSE Min(scrollTop, MaxTop(logs'))
      ]_vars

\* a delivery was drawn while not autoScroll, the list staying off the top and
\* off the bottom
C19_RenderedWhilePinned ==
    /\ hist.op \in {"push", "poll"} /\ hist.rendered /\ hist.changed
    /\ ~autoScroll
    /\ scrollTop > 0 /\ scrollTop < MaxTop(logs)

\* the handler that ran last called updateScrollButtons
ButtonsUpdated ==
    \/ hist.op \in {"scroll", "scrollTopClick", "scrollBottomClick"}
    \/ hist.op \in {"push", "poll"} /\ hist.rendered /\ logs # <<>>

\* C20: after updateScrollButtons the two buttons depend on the distance to the
\* top and the distance to the bottom only: within the threshold of the top
\* only scrollBottomBtn is shown, else within the threshold of the bottom only
\* scrollTopBtn is shown, else both; never are both hidden.
C20_ButtonsFromDistances ==
    ButtonsUpdated =>
        LET distanceToTop == scrollTop
            distanceToBottom == MaxTop(logs) - scrollTop
            nearTop == distanceToTop <= autoScrollThreshold
            nearBottom == distanceToBottom <= autoScrollThreshold
        IN  /\ scrollTopBtn = IF nearTop THEN "hidden" ELSE "shown"
            /\ scrollBottomBtn = IF ~nearTop /\ nearBottom THEN "hidden" ELSE "shown"
            /\ "shown" \in {scrollTopBtn, scrollBottomBtn}

\* the buttons were updated with the list far from both edges, and with a
\* list short enough to be near both
C20_BothShown ==
    ButtonsUpdated /\ scrollTopBtn = "shown" /\ scrollBottomBtn = "shown"

\* the settled window as buffer entries
WindowEntries == [i \in 1..Len(window.items) |-> Entry(window.items[i])]

\* C14: in a run fed by polling alone, with the backend window settled, the
\* buffer eventually equals the window and equals it ever after.
C14_PollingCatchesUp == <>[](logs = WindowEntries)

\* a poll of this run has replaced a different buffer by the non-empty settled
\* window, the next poll being in flight already
C14_CaughtUpByPoll ==
    /\ window.kind = "array" /\ window.items # <<>>
    /\ hist.op = "poll" /\ hist.poll = window /\ hist.changed
    /\ polls["timer"] > 0
    /\ logs = WindowEntries

\* a poll failed during a run that shows an error text and a non-empty buffer,
\* and the timer is still armed
C15_PollFailedWhileRunning ==
    /\ hist.op = "pollFailed"
    /\ running /\ pollTimer /\ activeTimers > 0
    /\ logs # <<>>
    /\ errorText \in Errs

====
